---- MODULE Spec2Model ----
(***************************************************************************)
(* Model of interactive_plotting.py:                                       *)
(*   - interactive_histograms and its slider callback _inter_hist_js_code  *)
(*     (client-side rebinning of a density histogram);                     *)
(*   - smooth_expression._eval (the kernel-expression evaluator).          *)
(*                                                                         *)
(* Numbers in the callback are JavaScript numbers and numbers in           *)
(* np.histogram are float64: both are IEEE-754 binary64 with               *)
(* round-to-nearest-even.  They are modelled bit-exactly for the values    *)
(* the model reaches: no overflow of the exponent range, no subnormals.    *)
(***************************************************************************)
EXTENDS Integers, Sequences, FiniteSets, TLC

(***************************************************************************)
(* Unsigned multi-word integers: <<high, middle, low>> words of 24 bits,   *)
(* so that every intermediate result fits TLC's 32-bit integers.           *)
(***************************************************************************)
Base == 2^24
Half == 2^12

BigZero == <<0, 0, 0>>
BigOne == <<0, 0, 1>>

BigFromInt(n) == <<0, n \div Base, n % Base>>

BigCmp(a, b) ==
    IF a[1] # b[1] THEN (IF a[1] < b[1] THEN -1 ELSE 1)
    ELSE IF a[2] # b[2] THEN (IF a[2] < b[2] THEN -1 ELSE 1)
    ELSE IF a[3] # b[3] THEN (IF a[3] < b[3] THEN -1 ELSE 1)
    ELSE 0

BigAdd(a, b) ==
    LET l == a[3] + b[3]
        m == a[2] + b[2] + (l \div Base)
        h == a[1] + b[1] + (m \div Base)
    IN  <<h, m % Base, l % Base>>

\* a - b, for a >= b
BigSub(a, b) ==
    LET l  == a[3] - b[3]
        bl == IF l < 0 THEN 1 ELSE 0
        m  == a[2] - b[2] - bl
        bm == IF m < 0 THEN 1 ELSE 0
    IN  <<a[1] - b[1] - bm, m + bm * Base, l + bl * Base>>

\* number of significant bits of a word
WordLen(x) == CHOOSE n \in 0..24 : (n = 0 \/ 2^(n - 1) <= x) /\ x < 2^n

\* number of significant bits
BitLen(a) ==
    IF a[1] # 0 THEN 48 + WordLen(a[1])
    ELSE IF a[2] # 0 THEN 24 + WordLen(a[2])
    ELSE WordLen(a[3])

\* a * 2^s (the callers never shift bits out of the top word)
RECURSIVE BigShl(_, _)
BigShl(a, s) ==
    IF s = 0 THEN a
    ELSE IF s >= 24 THEN BigShl(<<a[2], a[3], 0>>, s - 24)
    ELSE LET p == 2^s
             q == 2^(24 - s)
         IN  <<(a[1] % q) * p + (a[2] \div q),
               (a[2] % q) * p + (a[3] \div q),
               (a[3] % q) * p>>

\* floor(a / 2^s)
RECURSIVE BigShr(_, _)
BigShr(a, s) ==
    IF s = 0 THEN a
    ELSE IF s >= 24 THEN BigShr(<<0, a[1], a[2]>>, s - 24)
    ELSE LET p == 2^s
             q == 2^(24 - s)
         IN  <<a[1] \div p,
               (a[1] % p) * q + (a[2] \div p),
               (a[2] % p) * q + (a[3] \div p)>>

\* whether any of the low s bits of a is set
BigLowBits(a, s) == BigShl(BigShr(a, s), s) # a

(***************************************************************************)
(* binary64 values.  k = "fin": the value (-1)^sg * m * 2^e with m = 0     *)
(* (and e = 0) or 2^52 <= m < 2^53;  k = "inf": an infinity of sign sg;    *)
(* k = "nan": NaN.                                                         *)
(***************************************************************************)
Fin(sg, m, e) == [k |-> "fin", sg |-> sg, m |-> m, e |-> e]
FZero == Fin(0, BigZero, 0)
FInf(sg) == [k |-> "inf", sg |-> sg, m |-> BigZero, e |-> 0]
FNaN == [k |-> "nan", sg |-> 0, m |-> BigZero, e |-> 0]

IsZero(a) == a.k = "fin" /\ a.m = BigZero
IsFinite(a) == a.k = "fin"

\* Round (-1)^sg * (n + a fraction in (0,1) when sticky) * 2^e to the nearest
\* double, ties to even.  With sticky the callers pass at least 55 bits.
RoundNorm(sg, n, e, sticky) ==
    LET len == BitLen(n)
    IN  IF len = 0 THEN Fin(sg, BigZero, 0)
        ELSE IF len <= 53 THEN Fin(sg, BigShl(n, 53 - len), e - (53 - len))
        ELSE LET s    == len - 53
                 q    == BigShr(n, s)
                 rem  == n[3] % (2^s)
                 half == 2^(s - 1)
                 up   == \/ rem > half
                         \/ rem = half /\ (sticky \/ q[3] % 2 = 1)
                 q1   == IF up THEN BigAdd(q, BigOne) ELSE q
             IN  IF BitLen(q1) = 54 THEN Fin(sg, BigShr(q1, 1), e + s + 1)
                 ELSE Fin(sg, q1, e + s)

\* Number(n) for a small non-negative integer n
FromInt(n) == RoundNorm(0, BigFromInt(n), 0, FALSE)

FNeg(a) == IF a.k = "nan" THEN a ELSE [a EXCEPT !.sg = 1 - a.sg]

\* |a| < |b| for operands that are not NaN
MagLt(a, b) ==
    IF a.k = "inf" THEN FALSE
    ELSE IF b.k = "inf" THEN TRUE
    ELSE IF IsZero(b) THEN FALSE
    ELSE IF IsZero(a) THEN TRUE
    ELSE a.e < b.e \/ (a.e = b.e /\ BigCmp(a.m, b.m) < 0)

\* a == b, a < b and a <= b as IEEE comparisons (false when an operand is NaN)
FEq(a, b) ==
    /\ a.k # "nan" /\ b.k # "nan"
    /\ (IsZero(a) /\ IsZero(b)) \/ a = b

FLt(a, b) ==
    IF a.k = "nan" \/ b.k = "nan" THEN FALSE
    ELSE IF IsZero(a) /\ IsZero(b) THEN FALSE
    ELSE IF a.sg # b.sg THEN a.sg = 1
    ELSE IF a.sg = 0 THEN MagLt(a, b)
    ELSE MagLt(b, a)

FLe(a, b) == FLt(a, b) \/ FEq(a, b)

\* |a| + |b| with sign sg, for finite non-zero a and b
MagAdd(sg, a, b) ==
    LET hi == IF a.e >= b.e THEN a ELSE b
        lo == IF a.e >= b.e THEN b ELSE a
        d  == hi.e - lo.e
    IN  IF d <= 18
        THEN RoundNorm(sg, BigAdd(BigShl(hi.m, d), lo.m), lo.e, FALSE)
        ELSE RoundNorm(sg, BigAdd(BigShl(hi.m, 18), BigShr(lo.m, d - 18)),
                       hi.e - 18, BigLowBits(lo.m, d - 18))

\* |a| - |b| with sign sg, for finite non-zero a and b with |a| > |b|
MagSub(sg, a, b) ==
    LET d == a.e - b.e
    IN  IF d <= 18
        THEN RoundNorm(sg, BigSub(BigShl(a.m, d), b.m), b.e, FALSE)
        ELSE LET x  == BigShl(a.m, 18)
                 y  == BigShr(b.m, d - 18)
                 st == BigLowBits(b.m, d - 18)
             IN  RoundNorm(sg, IF st THEN BigSub(BigSub(x, y), BigOne)
                                     ELSE BigSub(x, y),
                           a.e - 18, st)

\* a + b
FAdd(a, b) ==
    IF a.k = "nan" \/ b.k = "nan" THEN FNaN
    ELSE IF a.k = "inf"
         THEN (IF b.k = "inf" /\ b.sg # a.sg THEN FNaN ELSE a)
    ELSE IF b.k = "inf" THEN b
    ELSE IF IsZero(a) /\ IsZero(b)
         THEN Fin(IF a.sg = 1 /\ b.sg = 1 THEN 1 ELSE 0, BigZero, 0)
    ELSE IF IsZero(a) THEN b
    ELSE IF IsZero(b) THEN a
    ELSE IF a.sg = b.sg THEN MagAdd(a.sg, a, b)
    ELSE IF MagLt(b, a) THEN MagSub(a.sg, a, b)
    ELSE IF MagLt(a, b) THEN MagSub(b.sg, b, a)
    ELSE FZero

\* a - b
FSub(a, b) == FAdd(a, FNeg(b))

\* the 12-bit digits of a mantissa, lowest first
Digits(m) == <<m[3] % Half, m[3] \div Half, m[2] % Half, m[2] \div Half, m[1]>>

XorSign(a, b) == IF a.sg = b.sg THEN 0 ELSE 1

\* a * b
FMul(a, b) ==
    IF a.k = "nan" \/ b.k = "nan" THEN FNaN
    ELSE IF a.k = "inf" \/ b.k = "inf"
         THEN (IF IsZero(a) \/ IsZero(b) THEN FNaN ELSE FInf(XorSign(a, b)))
    ELSE IF IsZero(a) \/ IsZero(b) THEN Fin(XorSign(a, b), BigZero, 0)
    ELSE LET x == Digits(a.m)
             y == Digits(b.m)
             P(n) == LET idx == {i \in 1..5 : n + 2 - i \in 1..5}
                         RECURSIVE Sum(_)
                         Sum(S) == IF S = {} THEN 0
                                   ELSE LET i == CHOOSE j \in S : TRUE
                                        IN  x[i] * y[n + 2 - i] + Sum(S \ {i})
                     IN  Sum(idx)
             c0 == P(0)
             c1 == P(1) + (c0 \div Half)
             c2 == P(2) + (c1 \div Half)
             c3 == P(3) + (c2 \div Half)
             c4 == P(4) + (c3 \div Half)
             c5 == P(5) + (c4 \div Half)
             c6 == P(6) + (c5 \div Half)
             c7 == P(7) + (c6 \div Half)
             c8 == P(8) + (c7 \div Half)
             st == c0 % Half # 0 \/ c1 % Half # 0 \/ c2 % Half # 0
             n  == <<(c7 % Half) + c8 * Half,
                     (c5 % Half) + (c6 % Half) * Half,
                     (c3 % Half) + (c4 % Half) * Half>>
         IN  RoundNorm(XorSign(a, b), n, a.e + b.e + 36, st)

\* a * k for a small k (k < 128)
BigMulSmall(a, k) ==
    LET l == a[3] * k
        m == a[2] * k + (l \div Base)
        h == a[1] * k + (m \div Base)
    IN  <<h, m % Base, l % Base>>

\* Long division in radix 64.  One step takes <<q, r>> with r < d to
\* <<64 q + t, 64 r - t d>>, t the next quotient digit; d has 53 bits.  The
\* digit is estimated from the leading words, from below, and corrected.
EstDigit(rt, dt) == (rt[2] * Base + rt[3]) \div (dt[3] + 1)

RECURSIVE DivCorrect(_, _, _)
DivCorrect(q, rem, d) ==
    IF BigCmp(rem, d) >= 0
    THEN DivCorrect(BigAdd(q, BigOne), BigSub(rem, d), d)
    ELSE <<q, rem>>

DivDigit(q, r64, d, est) ==
    DivCorrect(BigAdd(BigShl(q, 6), BigFromInt(est)),
               BigSub(r64, BigMulSmall(d, est)), d)

DivShifted(q, r64, d) ==
    DivDigit(q, r64, d, EstDigit(BigShr(r64, 29), BigShr(d, 29)))

DivStep(s, d) == DivShifted(s[1], BigShl(s[2], 6), d)

\* k steps from s; every step is evaluated before the next is taken
RECURSIVE DivLoop(_, _, _)
DivLoop(s, d, k) ==
    IF Len(s) = 2 /\ k > 0 THEN DivLoop(DivStep(s, d), d, k - 1) ELSE s

\* <<floor(a * 2^60 / b), remainder>> for 53-bit a and b: the integer bit and
\* ten radix-64 steps
BigDiv60(a, b) ==
    DivLoop(IF BigCmp(a, b) >= 0 THEN <<BigOne, BigSub(a, b)>>
                                 ELSE <<BigZero, a>>, b, 10)

RoundQuot(sg, qr, e) == RoundNorm(sg, qr[1], e, qr[2] # BigZero)

\* a / b
FDiv(a, b) ==
    IF a.k = "nan" \/ b.k = "nan" THEN FNaN
    ELSE IF a.k = "inf" THEN (IF b.k = "inf" THEN FNaN ELSE FInf(XorSign(a, b)))
    ELSE IF b.k = "inf" THEN Fin(XorSign(a, b), BigZero, 0)
    ELSE IF IsZero(b) THEN (IF IsZero(a) THEN FNaN ELSE FInf(XorSign(a, b)))
    ELSE IF IsZero(a) THEN Fin(XorSign(a, b), BigZero, 0)
    ELSE RoundQuot(XorSign(a, b), BigDiv60(a.m, b.m), a.e - b.e - 60)

(***************************************************************************)
(* Bounds of the model and its inputs.                                     *)
(***************************************************************************)
\* sample values are the doubles nearest k / Den, k in 0..MaxNum
Den == 5 * 7
MaxNum == 1
\* sample arrays have 1..MaxLen entries
MaxLen == 2
\* min_bins, max_bins and bins are drawn from 0..MaxBins + 1
MaxBins == 4

\* the double nearest p / q (a Python float built from a decimal or a ratio)
FromRat(p, q) == FDiv(FromInt(p), FromInt(q))

Val(k) == FromRat(k, Den)

\* the sample array of the documented example, [1,1,2,3,3,3,4,5]
Example == [i \in 1..8 |-> FromInt(<<1, 1, 2, 3, 3, 3, 4, 5>>[i])]

SampleArrays ==
    UNION {[1..n -> {Val(k) : k \in 0..MaxNum}] : n \in 1..MaxLen} \cup {Example}

RECURSIVE SumSeq(_)
SumSeq(s) == IF s = <<>> THEN 0 ELSE Head(s) + SumSeq(Tail(s))

(***************************************************************************)
(* _inter_hist_js_code: the slider callback.                               *)
(***************************************************************************)
\* x.sort((a, b) => a - b), a stable sort: insert v into the sorted sequence
\* s, before the elements it does not exceed
RECURSIVE Insert(_, _)
Insert(v, s) ==
    IF s = <<>> THEN <<v>>
    ELSE IF FLe(v, Head(s)) THEN <<v>> \o s
    ELSE <<Head(s)>> \o Insert(v, Tail(s))

RECURSIVE SortAsc(_)
SortAsc(s) == IF s = <<>> THEN <<>> ELSE Insert(Head(s), SortAsc(Tail(s)))

\* the callback without its sort: x is the stored array as it is
JsSort_Unsorted(x) == x

JsSort(x) == SortAsc(x)

\* var bin_size = (x[x.length - 1] - x[0]) / n_bins
BinSize(x, n_bins) == FDiv(FSub(x[Len(x)], x[1]), FromInt(n_bins))

\* l_edges[i] = x[0] + bin_size * i  and  r_edges[i] = x[0] + bin_size * (i + 1)
LEdges(x0, bin_size, n_bins) ==
    [i \in 1..n_bins |-> FAdd(x0, FMul(bin_size, FromInt(i - 1)))]

REdges(x0, bin_size, n_bins) ==
    [i \in 1..n_bins |-> FAdd(x0, FMul(bin_size, FromInt(i)))]

\* the test written with < : a sample on an edge goes to the upper bin
InBin_Strict(v, edge) == FLt(v, edge)

\* the test of the inner loop: x[i] <= r_edges[j]
InBin(v, edge) == FLe(v, edge)

\* the inner loop from j on: the bin that is incremented, 0 when the loop
\* ends without a break
RECURSIVE FirstBin(_, _, _)
FirstBin(v, r_edges, j) ==
    IF j > Len(r_edges) THEN 0
    ELSE IF InBin(v, r_edges[j]) THEN j
    ELSE FirstBin(v, r_edges, j + 1)

\* the outer loop from sample i on
RECURSIVE CountLoop(_, _, _, _)
CountLoop(x, r_edges, i, hist) ==
    IF i > Len(x) THEN hist
    ELSE LET j == FirstBin(x[i], r_edges, 1)
         IN  CountLoop(x, r_edges, i + 1,
                       IF j = 0 THEN hist ELSE [hist EXCEPT ![j] = @ + 1])

\* sum = hist.reduce(...); deltas[i] = r_edges[i] - l_edges[i];
\* hist[i] = c / deltas[i] / sum
Density(hist, l_edges, r_edges) ==
    [i \in 1..Len(hist) |->
        FDiv(FDiv(FromInt(hist[i]), FSub(r_edges[i], l_edges[i])),
             FromInt(SumSeq(hist)))]

\* what the callback leaves behind: the sorted array, the counts of the
\* membership loop and the new source.data
RebinResult(x, hist, l_edges, r_edges) ==
    [x      |-> x,
     counts |-> hist,
     data   |-> [hist    |-> Density(hist, l_edges, r_edges),
                 l_edges |-> l_edges,
                 r_edges |-> r_edges]]

RebinCount(x, l_edges, r_edges, n_bins) ==
    RebinResult(x, CountLoop(x, r_edges, 1, [j \in 1..n_bins |-> 0]),
                l_edges, r_edges)

RebinEdges(x, bin_size, n_bins) ==
    RebinCount(x, LEdges(x[1], bin_size, n_bins),
               REdges(x[1], bin_size, n_bins), n_bins)

RebinSorted(x, n_bins) == RebinEdges(x, BinSize(x, n_bins), n_bins)

\* the whole callback on the stored values and the slider's value
Rebin(values, n_bins) == RebinSorted(JsSort(values), n_bins)

(***************************************************************************)
(* np.histogram(orig, density=True, bins=bins), as interactive_histograms  *)
(* calls it for the initial render: equal-width bins over [min, max]       *)
(* ([min - 0.5, max + 0.5] when min = max), every bin half-open except the *)
(* last, edges from linspace (the last edge is set to the upper end), and  *)
(* hist = counts / diff(edges) / counts.sum().                             *)
(***************************************************************************)
MinOf(a) == CHOOSE v \in {a[i] : i \in 1..Len(a)} : \A i \in 1..Len(a) : FLe(v, a[i])
MaxOf(a) == CHOOSE v \in {a[i] : i \in 1..Len(a)} : \A i \in 1..Len(a) : FLe(a[i], v)

LinspaceStep(start, stop, step, n) ==
    [i \in 1..(n + 1) |->
        IF i = n + 1 /\ n > 0 THEN stop
        ELSE FAdd(FMul(FromInt(i - 1), step), start)]

Linspace(start, stop, n) ==
    LinspaceStep(start, stop, FDiv(FSub(stop, start), FromInt(n)), n)

NpRange(lo, hi, bins) ==
    IF FEq(lo, hi)
    THEN Linspace(FSub(lo, FromRat(1, 2)), FAdd(hi, FromRat(1, 2)), bins)
    ELSE Linspace(lo, hi, bins)

NpEdges(a, bins) == NpRange(MinOf(a), MaxOf(a), bins)

NpBin(v, edges, bins) ==
    IF FEq(v, edges[bins + 1]) THEN bins
    ELSE CHOOSE j \in 1..bins : FLe(edges[j], v) /\ FLt(v, edges[j + 1])

NpCounts(a, edges, bins) ==
    [j \in 1..bins |->
        Cardinality({i \in 1..Len(a) : NpBin(a[i], edges, bins) = j})]

NpDensity(n, edges, bins) ==
    [hist    |-> [j \in 1..bins |->
                    FDiv(FDiv(FromInt(n[j]), FSub(edges[j + 1], edges[j])),
                         FromInt(SumSeq(n)))],
     l_edges |-> SubSeq(edges, 1, bins),
     r_edges |-> SubSeq(edges, 2, bins + 1)]

NpFromEdges(a, edges, bins) == NpDensity(NpCounts(a, edges, bins), edges, bins)

NpHistogram(a, bins) == NpFromEdges(a, NpEdges(a, bins), bins)

(***************************************************************************)
(* The state of one histogram widget.                                      *)
(***************************************************************************)
VARIABLES
    phase,      \* "idle" before interactive_histograms is called, then
                \* "live" (the figure is shown) or "rejected" (ValueError)
    cfg,        \* the arguments min_bins, max_bins, bins
    error,      \* the argument the ValueError names, "none" without one
    samples,    \* the column ad.obs[key] on the Python side
    orig,       \* orig.data['values'] in the browser
    slider,     \* the Slider: start, end, value
    source,     \* source.data: hist, l_edges, r_edges
    counts,     \* the callback's hist after its membership loop
    recomputed  \* whether the callback has run

hvars == <<phase, cfg, error, samples, orig, slider, source, counts, recomputed>>

(***************************************************************************)
(* The caller of smooth_expression: its parameter table and its default    *)
(* parameter set live across calls, and every call leaves its outcome.     *)
(***************************************************************************)
VARIABLES
    python,                 \* the parser of the interpreter: "3.8" the
                            \* grammar of CPython up to 3.8, "3.9" the one
                            \* since
    kphase,                 \* "idle" until the caller has built its dicts
    kernel_params,          \* the caller's dict: identifier -> parameter set
    kernel_default_params,  \* the caller's default parameter set
    mode,                   \* the arguments of the last call
    kernel_expr,
    suppress,
    kernel,                 \* the value of line 306, or the exception it raised
    result,                 \* the outcome of the call: the fit, or the
                            \* exception raised
    reached,                \* the identifiers of the Name nodes _eval reached
    built,                  \* the identifiers a kernel was constructed for
    made                    \* what line 261 gave for every identifier that
                            \* came to it: the kernel or the exception

kvars == <<python, kphase, kernel_params, kernel_default_params, mode,
           kernel_expr, suppress, kernel, result, reached, built, made>>

(***************************************************************************)
(* The widgets of interactive_histograms in the browser: show() is called  *)
(* inside the loop over the keys and hands the browser the figure of one   *)
(* key together with the checkbox group as it is at that moment.           *)
(***************************************************************************)
VARIABLES
    wphase,                 \* "idle" until the figures are shown
    n_plots,                \* len(group_v_combs)
    plot_ids,               \* the indices j of the groups with observations
    figs,                   \* per key: cb, the key whose plot_map the checkbox
                            \* group's callback holds; active, cb.active;
                            \* visible[i + 1], p_{plot_ids[i]}.visible
    event                   \* the last thing the user did

wvars == <<wphase, n_plots, plot_ids, figs, event>>

NoData == [hist |-> <<>>, l_edges |-> <<>>, r_edges |-> <<>>]
NoCfg == [min_bins |-> 0, max_bins |-> 0, bins |-> 0]
NoSlider == [start |-> 0, end |-> 0, value |-> 0]

HInit ==
    /\ phase = "idle"
    /\ cfg = NoCfg
    /\ error = "none"
    /\ samples = <<>>
    /\ orig = <<>>
    /\ slider = NoSlider
    /\ source = NoData
    /\ counts = <<>>
    /\ recomputed = FALSE

\* the checks without the first one: min_bins < 1 is let through
Validate_NoMinCheck(min_bins, max_bins, bins) ==
    IF max_bins < min_bins THEN "max_bins"
    ELSE IF ~(bins >= min_bins /\ bins <= max_bins) THEN "bins"
    ELSE "none"

\* the three checks at the head of interactive_histograms, in order
Validate(min_bins, max_bins, bins) ==
    IF min_bins < 1 THEN "min_bins"
    ELSE IF max_bins < min_bins THEN "max_bins"
    ELSE IF ~(bins >= min_bins /\ bins <= max_bins) THEN "bins"
    ELSE "none"

\* interactive_histograms(adata, keys=[key], bins, min_bins, max_bins) for one
\* group with the observations xs
Call(min_bins, max_bins, bins, xs) ==
    /\ phase = "idle"
    /\ cfg' = [min_bins |-> min_bins, max_bins |-> max_bins, bins |-> bins]
    /\ error' = Validate(min_bins, max_bins, bins)
    /\ IF Validate(min_bins, max_bins, bins) # "none"
       THEN /\ phase' = "rejected"
            /\ UNCHANGED <<samples, orig, slider, source>>
       ELSE /\ phase' = "live"
            /\ samples' = xs
            /\ orig' = xs
            /\ slider' = [start |-> min_bins, end |-> max_bins, value |-> bins]
            /\ source' = NpHistogram(xs, bins)
    /\ UNCHANGED <<counts, recomputed>>
    /\ UNCHANGED <<kvars, wvars>>

\* the callback's writes: the array sorted in place and the new source.data
Recompute(res) ==
    /\ orig' = res.x
    /\ counts' = res.counts
    /\ source' = res.data

\* the user moves the slider to v: slider.js_on_change('value', callback)
SliderChange(v) ==
    /\ phase = "live"
    /\ v \in slider.start..slider.end
    /\ v # slider.value
    /\ slider' = [slider EXCEPT !.value = v]
    /\ Recompute(Rebin(orig, v))
    /\ recomputed' = TRUE
    /\ UNCHANGED <<phase, cfg, error, samples>>
    /\ UNCHANGED <<kvars, wvars>>

(***************************************************************************)
(* smooth_expression: the kernel expression.  kernel_expr is a string, a   *)
(* sequence of characters; ast.parse(kernel_expr, mode='eval').body is     *)
(* its syntax tree.  The tokenizer and the grammar are Python's, for the   *)
(* characters of Chars.                                                    *)
(***************************************************************************)
Letters == {"k", "w"}
DigitChars == <<"1", "2", "3", "4", "5", "6", "7", "8", "9">>
IsDigit(c) == \E d \in 1..9 : DigitChars[d] = c
DigitVal(c) == CHOOSE d \in 1..9 : DigitChars[d] = c

\* the string of a sequence of characters
RECURSIVE Join(_)
Join(cs) == IF cs = <<>> THEN "" ELSE Head(cs) \o Join(Tail(cs))

Tok(t, v) == [t |-> t, v |-> v]
NumTok(n) == [t |-> "NUMBER", n |-> n]
BadTok == [t |-> "ERRORTOKEN", v |-> ""]

\* <<the identifier that starts with acc, the characters after it>>
RECURSIVE ScanName(_, _)
ScanName(cs, acc) ==
    IF cs # <<>> /\ (Head(cs) \in Letters \/ IsDigit(Head(cs)))
    THEN ScanName(Tail(cs), acc \o Head(cs))
    ELSE <<acc, cs>>

\* <<the decimal number that starts with the digits of n, the characters
\* after it>>
RECURSIVE ScanNumber(_, _)
ScanNumber(cs, n) ==
    IF cs # <<>> /\ IsDigit(Head(cs))
    THEN ScanNumber(Tail(cs), 10 * n + DigitVal(Head(cs)))
    ELSE <<n, cs>>

\* <<whether the string literal is closed, its text, the characters after
\* its closing quote>>
RECURSIVE ScanString(_, _)
ScanString(cs, acc) ==
    IF cs = <<>> THEN <<FALSE, acc, cs>>
    ELSE IF Head(cs) = "'" THEN <<TRUE, acc, Tail(cs)>>
    ELSE ScanString(Tail(cs), acc \o Head(cs))

\* the same for a literal opened by three quotes: it ends at the next three
Tripled(cs) == Len(cs) >= 3 /\ cs[1] = "'" /\ cs[2] = "'" /\ cs[3] = "'"

RECURSIVE ScanTriple(_, _)
ScanTriple(cs, acc) ==
    IF cs = <<>> THEN <<FALSE, acc, cs>>
    ELSE IF Tripled(cs) THEN <<TRUE, acc, Tail(Tail(Tail(cs)))>>
    ELSE ScanTriple(Tail(cs), acc \o Head(cs))

\* whether cs starts with the two characters c, c
Doubled(cs, c) == Len(cs) >= 2 /\ cs[1] = c /\ cs[2] = c

RECURSIVE Tokens(_)
AfterName(r) == <<Tok("NAME", r[1])>> \o Tokens(r[2])

\* a letter right after a number is not a decimal literal
AfterNumber(r) ==
    IF r[2] # <<>> /\ r[2][1] \in Letters THEN <<BadTok>>
    ELSE <<NumTok(r[1])>> \o Tokens(r[2])

AfterString(r) ==
    IF r[1] THEN <<Tok("STRING", r[2])>> \o Tokens(r[3]) ELSE <<BadTok>>

Tokens(cs) ==
    IF cs = <<>> THEN <<>>
    ELSE IF Head(cs) = " " THEN Tokens(Tail(cs))
    ELSE IF Head(cs) \in Letters THEN AfterName(ScanName(cs, ""))
    ELSE IF IsDigit(Head(cs)) THEN AfterNumber(ScanNumber(cs, 0))
    ELSE IF Tripled(cs) THEN AfterString(ScanTriple(Tail(Tail(Tail(cs))), ""))
    ELSE IF Head(cs) = "'" THEN AfterString(ScanString(Tail(cs), ""))
    ELSE IF Doubled(cs, "*") \/ Doubled(cs, "/") \/ Doubled(cs, "<")
         THEN <<Tok("OP", cs[1] \o cs[2])>> \o Tokens(Tail(Tail(cs)))
    ELSE <<Tok("OP", Head(cs))>> \o Tokens(Tail(cs))

\* the nodes of the syntax tree
Num(n) == [t |-> "Num", n |-> n]
Str(s) == [t |-> "Str", s |-> s]
Name(id) == [t |-> "Name", id |-> id]
BinOp(left, op, right) == [t |-> "BinOp", op |-> op, left |-> left, right |-> right]
UnaryOp(op, operand) == [t |-> "UnaryOp", op |-> op, operand |-> operand]
Compare(left, comparators) ==
    [t |-> "Compare", left |-> left, comparators |-> comparators]
CallNode(func, args) == [t |-> "Call", func |-> func, args |-> args]
Starred(how, value) == [t |-> how, value |-> value]
TupleNode == [t |-> "Tuple"]
SyntaxError == [t |-> "SyntaxError"]

\* a parse: the node read and the tokens after it, or a failure
Ok(node, rest) == [ok |-> TRUE, node |-> node, rest |-> rest]
Fail == [ok |-> FALSE, node |-> SyntaxError, rest |-> <<>>]

IsOp(toks, s) == toks # <<>> /\ Head(toks).t = "OP" /\ Head(toks).v = s
IsTok(toks, t) == toks # <<>> /\ Head(toks).t = t

RECURSIVE ParseExpr(_), CmpMore(_, _, _), ShiftRest(_), SumRest(_), TermRest(_)
RECURSIVE ParseFactor(_), Trailers(_), Strings(_, _), ParseShift(_)

\* atom: NAME | NUMBER | STRING+ | '(' ')' | '(' expression ')', and up to
\* CPython 3.8 also '(' '*' shift ')' (testlist_comp admits one star_expr),
\* which is a Starred node
Strings(acc, toks) ==
    IF IsTok(toks, "STRING") THEN Strings(acc \o Head(toks).v, Tail(toks))
    ELSE Ok(Str(acc), toks)

Paren(r) == IF r.ok /\ IsOp(r.rest, ")") THEN Ok(r.node, Tail(r.rest)) ELSE Fail

ParseAtom(toks) ==
    IF IsTok(toks, "NAME") THEN Ok(Name(Head(toks).v), Tail(toks))
    ELSE IF IsTok(toks, "NUMBER") THEN Ok(Num(Head(toks).n), Tail(toks))
    ELSE IF IsTok(toks, "STRING") THEN Strings("", toks)
    ELSE IF IsOp(toks, "(")
         THEN (IF IsOp(Tail(toks), ")") THEN Ok(TupleNode, Tail(Tail(toks)))
               ELSE IF python = "3.8" /\ IsOp(Tail(toks), "*")
               THEN LET r == ParseShift(Tail(Tail(toks)))
                    IN  IF r.ok /\ IsOp(r.rest, ")")
                        THEN Ok(Starred("Starred", r.node), Tail(r.rest))
                        ELSE Fail
               ELSE Paren(ParseExpr(Tail(toks))))
    ELSE Fail

\* primary: atom followed by calls; a call has no argument or one argument:
\* expression, '*' expression or '**' expression
CallClose(func, how, r) ==
    IF r.ok /\ IsOp(r.rest, ")")
    THEN Trailers(Ok(CallNode(func, <<Starred(how, r.node)>>), Tail(r.rest)))
    ELSE Fail

CallArgs(func, toks) ==
    IF IsOp(toks, ")") THEN Trailers(Ok(CallNode(func, <<>>), Tail(toks)))
    ELSE IF IsOp(toks, "*") THEN CallClose(func, "Starred", ParseExpr(Tail(toks)))
    ELSE IF IsOp(toks, "**") THEN CallClose(func, "keyword", ParseExpr(Tail(toks)))
    ELSE CallClose(func, "arg", ParseExpr(toks))

Trailers(l) ==
    IF l.ok /\ IsOp(l.rest, "(") THEN CallArgs(l.node, Tail(l.rest)) ELSE l

ParsePrimary(toks) == Trailers(ParseAtom(toks))

\* power: primary ['**' factor]
PowerJoin(left, r) ==
    IF r.ok THEN Ok(BinOp(left, "Pow", r.node), r.rest) ELSE Fail

PowerRest(l) ==
    IF l.ok /\ IsOp(l.rest, "**") THEN PowerJoin(l.node, ParseFactor(Tail(l.rest)))
    ELSE l

ParsePower(toks) == PowerRest(ParsePrimary(toks))

\* factor: ('+' | '-') factor | power
Unary(op, r) == IF r.ok THEN Ok(UnaryOp(op, r.node), r.rest) ELSE Fail

ParseFactor(toks) ==
    IF IsOp(toks, "+") THEN Unary("UAdd", ParseFactor(Tail(toks)))
    ELSE IF IsOp(toks, "-") THEN Unary("USub", ParseFactor(Tail(toks)))
    ELSE ParsePower(toks)

\* term: factor (('*' | '/' | '//') factor)*, left-associative
TermJoin(left, op, r) ==
    IF r.ok THEN TermRest(Ok(BinOp(left, op, r.node), r.rest)) ELSE Fail

TermRest(l) ==
    IF l.ok /\ IsOp(l.rest, "*") THEN TermJoin(l.node, "Mult", ParseFactor(Tail(l.rest)))
    ELSE IF l.ok /\ IsOp(l.rest, "/") THEN TermJoin(l.node, "Div", ParseFactor(Tail(l.rest)))
    ELSE IF l.ok /\ IsOp(l.rest, "//")
         THEN TermJoin(l.node, "FloorDiv", ParseFactor(Tail(l.rest)))
    ELSE l

ParseTerm(toks) == TermRest(ParseFactor(toks))

\* sum: term (('+' | '-') term)*, left-associative
SumJoin(left, op, r) ==
    IF r.ok THEN SumRest(Ok(BinOp(left, op, r.node), r.rest)) ELSE Fail

SumRest(l) ==
    IF l.ok /\ IsOp(l.rest, "+") THEN SumJoin(l.node, "Add", ParseTerm(Tail(l.rest)))
    ELSE IF l.ok /\ IsOp(l.rest, "-") THEN SumJoin(l.node, "Sub", ParseTerm(Tail(l.rest)))
    ELSE l

ParseSum(toks) == SumRest(ParseTerm(toks))

\* shift: sum ('<<' sum)*, left-associative
ShiftJoin(left, r) ==
    IF r.ok THEN ShiftRest(Ok(BinOp(left, "LShift", r.node), r.rest)) ELSE Fail

ShiftRest(l) ==
    IF l.ok /\ IsOp(l.rest, "<<") THEN ShiftJoin(l.node, ParseSum(Tail(l.rest)))
    ELSE l

ParseShift(toks) == ShiftRest(ParseSum(toks))

\* comparison: shift ('<' shift)*, one Compare node for the whole chain
CmpMore(left, cs, r) ==
    IF ~r.ok THEN Fail
    ELSE IF IsOp(r.rest, "<")
         THEN CmpMore(left, Append(cs, r.node), ParseShift(Tail(r.rest)))
    ELSE Ok(Compare(left, Append(cs, r.node)), r.rest)

CmpStart(l) ==
    IF l.ok /\ IsOp(l.rest, "<") THEN CmpMore(l.node, <<>>, ParseShift(Tail(l.rest)))
    ELSE l

ParseExpr(toks) == CmpStart(ParseShift(toks))

WholeInput(r) == IF r.ok /\ r.rest = <<>> THEN r.node ELSE SyntaxError

\* ast.parse(kernel_expr, mode='eval').body, SyntaxError when it raises one
\* (an expression that starts with a blank is an IndentationError)
Parse(cs) ==
    IF cs = <<>> \/ Head(cs) = " " THEN SyntaxError
    ELSE WholeInput(ParseExpr(Tokens(cs)))

(***************************************************************************)
(* smooth_expression: the registries and the values _eval computes.        *)
(***************************************************************************)
\* operators: the node types of ast with an entry, and the function of each
Operators == [Add |-> "add", Mult |-> "mul", Pow |-> "pow"]

\* kernels: the class behind every kernel type
Kernels ==
    [const |-> "ConstantKernel", white |-> "WhiteKernel", rbf |-> "RBF",
     mat |-> "Matern", rq |-> "RationalQuadratic", esn |-> "ExpSineSquared",
     dp |-> "DotProduct", pw |-> "PairwiseKernel"]

\* the keyword arguments the constructor of each class takes
KernelArgs ==
    [ConstantKernel    |-> {"constant_value", "constant_value_bounds"},
     WhiteKernel       |-> {"noise_level", "noise_level_bounds"},
     RBF               |-> {"length_scale", "length_scale_bounds"},
     Matern            |-> {"length_scale", "length_scale_bounds", "nu"},
     RationalQuadratic |-> {"length_scale", "alpha", "length_scale_bounds",
                            "alpha_bounds"},
     ExpSineSquared    |-> {"length_scale", "periodicity", "length_scale_bounds",
                            "periodicity_bounds"},
     DotProduct        |-> {"sigma_0", "sigma_0_bounds"},
     PairwiseKernel    |-> {"gamma", "gamma_bounds", "metric",
                            "pairwise_kernels_kwargs"}]

Number(n) == [v |-> "number", n |-> n]
Kernel(class, args) == [v |-> "kernel", class |-> class, args |-> args]
Composed(class, k1, k2) == [v |-> "kernel", class |-> class, k1 |-> k1, k2 |-> k2]
Raised(exc, what, id, expr) ==
    [v |-> "error", exc |-> exc, what |-> what, id |-> id, expr |-> expr]

IsNumber(x) == x.v = "number"
IsKernel(x) == x.v = "kernel"
IsError(x) == x.v = "error"

\* a dict without one key: what params.pop(key, ...) leaves
Pop(params, key) == [o \in DOMAIN params \ {key} |-> params[o]]

\* a number next to a kernel becomes ConstantKernel(number), as Kernel.__add__,
\* __radd__, __mul__ and __rmul__ of sklearn do
AsKernel(x) ==
    IF IsNumber(x) THEN Kernel("ConstantKernel", [constant_value |-> x.n]) ELSE x

\* op.add, op.mul and op.pow on two values
Apply(f, a, b) ==
    IF IsNumber(a) /\ IsNumber(b)
    THEN Number(IF f = "add" THEN a.n + b.n
                ELSE IF f = "mul" THEN a.n * b.n
                ELSE a.n ^ b.n)
    ELSE IF f = "add" THEN Composed("Sum", AsKernel(a), AsKernel(b))
    ELSE IF f = "mul" THEN Composed("Product", AsKernel(a), AsKernel(b))
    ELSE IF IsKernel(a) THEN Composed("Exponentiation", a, b)
    ELSE Raised("TypeError", "unsupported operand type(s) for **", "", "")

(***************************************************************************)
(* smooth_expression._eval.  env is what an evaluation reads and changes:  *)
(* kernel_expr and suppress, the caller's kernel_params and                *)
(* kernel_default_params (params.pop changes them), and two records of     *)
(* the evaluation: the identifiers of the Name nodes reached, the          *)
(* identifiers a kernel was constructed for, and what line 261 gave.       *)
(***************************************************************************)
Ret(env, val) == [env |-> env, val |-> val]

\* the constructor call kernels[kernel_type] with the keyword arguments params, for the identifier id
NewKernel(id, kernel_type, params, env) ==
    IF kernel_type \notin DOMAIN Kernels
    THEN Ret(env, Raised("KeyError", kernel_type, "", ""))
    ELSE IF ~(DOMAIN params \subseteq KernelArgs[Kernels[kernel_type]])
    THEN Ret(env, Raised("TypeError", "unexpected keyword argument", "", ""))
    ELSE Ret([env EXCEPT !.built = Append(@, id)],
             Kernel(Kernels[kernel_type], params))

\* params = kernel_params.get(id, kernel_default_params)
ParamsOf(id, env) ==
    IF id \in DOMAIN env.kernel_params THEN env.kernel_params[id]
    ELSE env.kernel_default_params

\* the dict params is, after params.pop('type', 'rbf')
Popped(id, env) ==
    IF id \in DOMAIN env.kernel_params
    THEN [env EXCEPT !.kernel_params[id] = Pop(@, "type")]
    ELSE [env EXCEPT !.kernel_default_params = Pop(@, "type")]

KernelType(params) == IF "type" \in DOMAIN params THEN params["type"] ELSE "rbf"

\* lines 259-261 for the identifier id
Lookup(id, env) ==
    NewKernel(id, KernelType(ParamsOf(id, env)), Pop(ParamsOf(id, env), "type"),
              Popped(id, env))

\* the same, with its outcome put on record
Resolve(id, r) ==
    Ret([r.env EXCEPT !.made = Append(@, [id |-> id, val |-> r.val])], r.val)

\* the Name branch without its membership test
EvalName_NoCheck(id, env) == Resolve(id, Lookup(id, env))

\* the Name branch
EvalName(id, env) ==
    IF ~env.suppress /\ id \notin DOMAIN env.kernel_params
    THEN Ret(env, Raised("ValueError", "is not a valid key in kernel_params",
                         id, Join(env.kernel_expr)))
    ELSE Resolve(id, Lookup(id, env))

RECURSIVE Eval(_, _)

\* operators[type(node.op)](left, right) once both operands are evaluated
ApplyOp(op, a, r) ==
    IF IsError(r.val) THEN r ELSE Ret(r.env, Apply(Operators[op], a, r.val))

EvalRight(node, l) ==
    IF IsError(l.val) THEN l ELSE ApplyOp(node.op, l.val, Eval(node.right, l.env))

\* a function of two operands called with one
ApplyUnary(op, r) ==
    IF IsError(r.val) THEN r
    ELSE Ret(r.env, Raised("TypeError", "expected 2 arguments, got 1", "", ""))

Eval(node, env) ==
    IF node.t = "Num" THEN Ret(env, Number(node.n))
    ELSE IF node.t = "Name"
    THEN EvalName(node.id, [env EXCEPT !.reached = Append(@, node.id)])
    ELSE IF node.t = "BinOp"
    THEN (IF node.op \notin DOMAIN Operators
          THEN Ret(env, Raised("KeyError", node.op, "", ""))
          ELSE EvalRight(node, Eval(node.left, env)))
    ELSE IF node.t = "UnaryOp"
    THEN (IF node.op \notin DOMAIN Operators
          THEN Ret(env, Raised("KeyError", node.op, "", ""))
          ELSE ApplyUnary(node.op, Eval(node.operand, env)))
    ELSE Ret(env, Raised("TypeError", node.t, "", ""))

(***************************************************************************)
(* The calls of smooth_expression.                                         *)
(***************************************************************************)
\* the characters of each identifier of the tables
IdChars == [k |-> <<"k">>, w |-> <<"w">>]

\* kernel_expr=None
None == <<"None">>

EmptyDict == [o \in {} |-> 0]
NoResult == [v |-> "none"]

\* the parameter sets, the tables and the expressions of the calls
ParamSets ==
    {[type |-> "rbf", length_scale |-> 2],
     [type |-> "white", noise_level |-> 1],
     [type |-> "bogus"],
     [length_scale |-> 2]}

Tables == UNION {[S -> ParamSets] : S \in {{}, {"k"}, {"k", "w"}}}

Defaults == {EmptyDict, [type |-> "white", noise_level |-> 1]}

Exprs ==
    {<<"k">>, <<"w">>, <<"k", "w">>, <<"2">>,
     <<"k", " ", "+", " ", "w">>,
     <<"w", " ", "*", " ", "k">>,
     <<"2", " ", "*", " ", "k", " ", "+", " ", "w">>,
     <<"k", " ", "*", "*", " ", "2">>,
     <<"k", " ", "*", "*", " ", "w">>,
     <<"-", "w">>,
     <<"k", " ", "-", " ", "w">>,
     <<"k", "(", "w", ")">>,
     <<"k", " ", "<", " ", "w">>,
     <<"'", "k", "'">>,
     <<"k", " ", "+", " ">>,
     <<"(", "*", "k", ")">>,
     None}

KInit ==
    /\ python \in {"3.8", "3.9"}
    /\ kphase = "idle"
    /\ kernel_params = EmptyDict
    /\ kernel_default_params = EmptyDict
    /\ mode = "gp"
    /\ kernel_expr = None
    /\ suppress = FALSE
    /\ kernel = NoResult
    /\ result = NoResult
    /\ reached = <<>>
    /\ built = <<>>
    /\ made = <<>>

\* the caller builds its table and its default parameter set
Caller(tbl, dflt) ==
    /\ kphase = "idle"
    /\ kphase' = "ready"
    /\ kernel_params' = tbl
    /\ kernel_default_params' = dflt
    /\ UNCHANGED <<python, mode, kernel_expr, suppress, kernel, result, reached,
                   built, made>>
    /\ UNCHANGED <<hvars, wvars>>

\* what _eval starts from
EvalEnv(expr, sup) ==
    [kernel_expr           |-> expr,
     suppress              |-> sup,
     kernel_params         |-> kernel_params,
     kernel_default_params |-> kernel_default_params,
     kernel                |-> NoResult,
     reached               |-> <<>>,
     built                 |-> <<>>,
     made                  |-> <<>>]

\* kernel = _eval(ast.parse(kernel_expr, mode='eval').body)
GpParsed(node, env) ==
    IF node = SyntaxError
    THEN Ret(env, Raised("SyntaxError", "invalid syntax", "", ""))
    ELSE Eval(node, env)

GpEval(expr, sup) == GpParsed(Parse(expr), EvalEnv(expr, sup))

\* every exponent inside a composed kernel is a number
RECURSIVE NumericExponents(_)
NumericExponents(k) ==
    IF k.class = "Exponentiation" THEN IsNumber(k.k2) /\ NumericExponents(k.k1)
    ELSE IF k.class \in {"Sum", "Product"}
    THEN NumericExponents(k.k1) /\ NumericExponents(k.k2)
    ELSE TRUE

\* lines 306-315 after _eval: kernel is its value r.val, and
\* GaussianProcessRegressor(kernel=kernel, ...).fit(x, y) raises TypeError
\* for a kernel that is a number (clone) and for a kernel with a kernel as
\* an exponent (K ** self.exponent in Exponentiation.__call__)
Fit(r) ==
    Ret([r.env EXCEPT !.kernel = r.val],
        IF IsError(r.val) THEN r.val
        ELSE IF IsNumber(r.val)
        THEN Raised("TypeError", "Cannot clone object", "", "")
        ELSE IF ~NumericExponents(r.val)
        THEN Raised("TypeError", "unsupported operand type(s) for ** or pow()",
                    "", "")
        ELSE [v |-> "fit", model |-> "GaussianProcessRegressor",
              kernel |-> r.val])

\* mode 'gp': without an expression the table's only key is the expression
Gp(expr, sup) ==
    IF expr # None THEN Fit(GpEval(expr, sup))
    ELSE IF Cardinality(DOMAIN kernel_params) # 1
    THEN Ret(EvalEnv(expr, sup), Raised("AssertionError", "", "", ""))
    ELSE Fit(GpEval(IdChars[CHOOSE id \in DOMAIN kernel_params : TRUE], sup))

\* the body of smooth_expression
Smooth(m, expr, sup) ==
    IF m = "krr"
    THEN Ret(EvalEnv(expr, sup), [v |-> "fit", model |-> "KernelRidge"])
    ELSE IF m = "gp" THEN Gp(expr, sup)
    ELSE Ret(EvalEnv(expr, sup), Raised("ValueError", "Uknown type", "", ""))

\* what a call leaves behind
Outcome(out) ==
    /\ kernel_params' = out.env.kernel_params
    /\ kernel_default_params' = out.env.kernel_default_params
    /\ kernel_expr' = out.env.kernel_expr
    /\ suppress' = out.env.suppress
    /\ reached' = out.env.reached
    /\ built' = out.env.built
    /\ made' = out.env.made
    /\ kernel' = out.env.kernel
    /\ result' = out.val

\* smooth_expression(x, y, mode=m, kernel_params=kernel_params,
\*     kernel_default_params=kernel_default_params, kernel_expr=expr,
\*     suppress=sup)
SmoothExpression(m, expr, sup) ==
    /\ kphase = "ready"
    /\ mode' = m
    /\ Outcome(Smooth(m, expr, sup))
    /\ UNCHANGED <<python, kphase>>
    /\ UNCHANGED <<hvars, wvars>>

(***************************************************************************)
(* interactive_histograms with groups and several keys: the checkbox       *)
(* group, the Toggle All button and their callbacks.                       *)
(***************************************************************************)
MaxGroups == 3
MaxKeys == 2

WInit ==
    /\ wphase = "idle"
    /\ n_plots = 0
    /\ plot_ids = <<>>
    /\ figs = <<>>
    /\ event = [op |-> "none", key |-> 0]

\* the same call, had every figure been handed the checkbox group with the
\* callback the loop leaves behind, that of the last key
Render_CallbackOfLastKey(n_obs, n_keys) ==
    /\ wphase = "idle"
    /\ \E j \in 1..Len(n_obs) : n_obs[j]
    /\ wphase' = "shown"
    /\ n_plots' = Len(n_obs)
    /\ plot_ids' = SelectSeq([j \in 1..Len(n_obs) |-> j - 1],
                             LAMBDA j : n_obs[j + 1])
    /\ figs' = [key \in 1..n_keys |->
                  [cb      |-> n_keys,
                   active  |-> 0..(Len(n_obs) - 1),
                   visible |-> [i \in 1..Len(plot_ids') |-> TRUE]]]
    /\ UNCHANGED event
    /\ UNCHANGED <<hvars, kvars>>

\* interactive_histograms(adata, keys, groups=...) with valid bins arguments:
\* n_obs[j + 1] says whether the j-th group has observations, n_keys is
\* len(keys).  Every key's show() serialises its figure, its button and the
\* checkbox group with the callback assigned for that key.
Render(n_obs, n_keys) ==
    /\ wphase = "idle"
    /\ \E j \in 1..Len(n_obs) : n_obs[j]
    /\ wphase' = "shown"
    /\ n_plots' = Len(n_obs)
    /\ plot_ids' = SelectSeq([j \in 1..Len(n_obs) |-> j - 1],
                             LAMBDA j : n_obs[j + 1])
    /\ figs' = [key \in 1..n_keys |->
                  [cb      |-> key,
                   active  |-> 0..(Len(n_obs) - 1),
                   visible |-> [i \in 1..Len(plot_ids') |-> TRUE]]]
    /\ UNCHANGED event
    /\ UNCHANGED <<hvars, kvars>>

\* the user clicks checkbox i of the figure of key: the group sets cb.active
\* (keep: the click toggles i in the list; otherwise the list is read back
\* from the boxes on the page) and runs its callback,
\* p_{p_id}.visible = cb.active.includes(i) for every plotted p_id
CheckboxChange(key, i, keep) ==
    /\ wphase = "shown"
    /\ key \in DOMAIN figs
    /\ i \in 0..(Len(plot_ids) - 1)
    /\ LET shown == IF keep THEN figs[key].active
                    ELSE figs[key].active \cap 0..(Len(plot_ids) - 1)
           active == IF i \in shown THEN shown \ {i} ELSE shown \cup {i}
       IN  figs' = [figs EXCEPT
                      ![key].active = active,
                      ![figs[key].cb].visible =
                          [n \in 1..Len(plot_ids) |-> (n - 1) \in active]]
    /\ event' = [op |-> "checkbox", key |-> key]
    /\ UNCHANGED <<wphase, n_plots, plot_ids>>
    /\ UNCHANGED <<hvars, kvars>>

\* the user presses Toggle All of the figure of key
ToggleAll(key) ==
    /\ wphase = "shown"
    /\ key \in DOMAIN figs
    /\ figs' = [figs EXCEPT ![key] =
                  IF Cardinality(@.active) = Len(plot_ids)
                  THEN [@ EXCEPT !.active = {},
                                 !.visible = [n \in 1..Len(plot_ids) |-> FALSE]]
                  ELSE [@ EXCEPT !.active = 0..(Len(plot_ids) - 1),
                                 !.visible = [n \in 1..Len(plot_ids) |-> TRUE]]]
    /\ event' = [op |-> "toggle", key |-> key]
    /\ UNCHANGED <<wphase, n_plots, plot_ids>>
    /\ UNCHANGED <<hvars, kvars>>

(***************************************************************************)
(* The three specifications: the histogram and its slider, the caller of   *)
(* smooth_expression, and the checkboxes of the histograms.                *)
(***************************************************************************)
vars == <<hvars, kvars, wvars>>

Init == HInit /\ KInit /\ WInit

Next ==
    \/ \E min_bins \in 0..MaxBins, max_bins \in 0..MaxBins, bins \in 0..MaxBins,
          xs \in SampleArrays : Call(min_bins, max_bins, bins, xs)
    \/ \E v \in 0..MaxBins : SliderChange(v)

Spec == Init /\ [][Next]_vars

KNext ==
    \/ \E tbl \in Tables, dflt \in Defaults : Caller(tbl, dflt)
    \/ \E m \in {"gp", "krr", "svm"}, expr \in Exprs, sup \in BOOLEAN :
          SmoothExpression(m, expr, sup)

KernelSpec == Init /\ [][KNext]_vars

WNext ==
    \/ \E n \in 1..MaxGroups, n_keys \in 1..MaxKeys :
          \E n_obs \in [1..n -> BOOLEAN] : Render(n_obs, n_keys)
    \/ \E key \in 1..MaxKeys, i \in 0..(MaxGroups - 1), keep \in BOOLEAN :
          CheckboxChange(key, i, keep)
    \/ \E key \in 1..MaxKeys : ToggleAll(key)

WidgetSpec == Init /\ [][WNext]_vars

(***************************************************************************)
(* Properties of the histogram widget.                                     *)
(***************************************************************************)
Degenerate(a) == \A i \in 1..Len(a) : FEq(a[i], a[1])

FAbs(a) == IF a.k = "nan" THEN a ELSE [a EXCEPT !.sg = 0]

\* the floating-point tolerance of the normalisation: 2^-30
Tol == FDiv(FromInt(1), FromInt(2^30))

\* sum over the bins 1..j of hist * (r_edge - l_edge)
RECURSIVE Mass(_, _)
Mass(data, j) ==
    IF j = 0 THEN FZero
    ELSE FAdd(Mass(data, j - 1),
              FMul(data.hist[j], FSub(data.r_edges[j], data.l_edges[j])))

Normalized(data) ==
    /\ \A j \in 1..Len(data.hist) : IsFinite(data.hist[j])
    /\ FLe(FAbs(FSub(Mass(data, Len(data.hist)), FromInt(1))), Tol)

\* the smallest j with v <= r_edges[j], 0 when there is none
MinBin(v, r_edges) ==
    IF \E j \in 1..Len(r_edges) : FLe(v, r_edges[j])
    THEN CHOOSE j \in 1..Len(r_edges) :
            /\ FLe(v, r_edges[j])
            /\ \A k \in 1..(j - 1) : ~FLe(v, r_edges[k])
    ELSE 0

\* C1: after the membership loop the per-bin counts sum to the number of
\* samples: no sample is dropped and none is counted twice.
C1_CountsSumToSamples == recomputed => SumSeq(counts) = Len(orig)

\* C2: the densities of a recomputed histogram are finite and normalized:
\* the sum over the bins of hist[j] * (r_edges[j] - l_edges[j]) is 1 within
\* the floating-point tolerance.
C2_DensityNormalized == recomputed => Normalized(source)

\* C3: every sample is counted in the bin with the smallest index j such
\* that x <= r_edges[j]; a sample lying exactly on an internal edge is
\* counted in the lower of the two adjacent bins, not in the upper one, and
\* the minimum is counted in the first bin.
C3_MembershipRule ==
    recomputed =>
        /\ \A j \in 1..Len(counts) :
              counts[j] = Cardinality({i \in 1..Len(orig) :
                                          MinBin(orig[i], source.r_edges) = j})
        /\ \A i \in 1..Len(orig) : \A j \in 1..(Len(counts) - 1) :
              FEq(orig[i], source.r_edges[j]) =>
                  /\ MinBin(orig[i], source.r_edges) <= j
                  /\ (j = 1 \/ FLt(source.r_edges[j - 1], orig[i])) =>
                        MinBin(orig[i], source.r_edges) = j
        /\ MinBin(MinOf(orig), source.r_edges) = 1
        /\ counts[1] >= 1

\* C3's case: a recomputed histogram with a sample on an internal edge that
\* lies strictly above the edge before it
C3_Witness ==
    /\ recomputed
    /\ \E i \in 1..Len(orig) : \E j \in 2..(Len(counts) - 1) :
          /\ FEq(orig[i], source.r_edges[j])
          /\ FLt(source.r_edges[j - 1], orig[i])
          /\ counts[j] >= 1

\* C4: rebinning [1,1,2,3,3,3,4,5] with 4 bins gives edges 1,2,3,4,5, the
\* counts [2,1,3,2] and the densities counts[j] / 1.0 / 8.
C4_Example ==
    (recomputed /\ samples = Example /\ slider.value = 4) =>
        /\ source.l_edges = [j \in 1..4 |-> FromInt(j)]
        /\ source.r_edges = [j \in 1..4 |-> FromInt(j + 1)]
        /\ counts = <<2, 1, 3, 2>>
        /\ source.hist = [j \in 1..4 |-> FromRat(<<2, 1, 3, 2>>[j], 8)]

\* C5: the histogram the callback computes when the slider is back at the
\* initial bin count is the histogram of the initial render, in its edges
\* and in its densities.
C5_SameAsInitialRender ==
    (recomputed /\ slider.value = cfg.bins) =>
        source = NpHistogram(samples, cfg.bins)

\* the histogram of a collection of samples with n bins, from nothing but
\* its least and its greatest sample and the number of samples each edge
\* bounds: it is the same for every order of the samples
HistOfMultiset(a, n) ==
    LET lo       == MinOf(a)
        bin_size == FDiv(FSub(MaxOf(a), lo), FromInt(n))
        l        == [j \in 1..n |-> FAdd(lo, FMul(bin_size, FromInt(j - 1)))]
        r        == [j \in 1..n |-> FAdd(lo, FMul(bin_size, FromInt(j)))]
        c        == [j \in 1..n |->
                        Cardinality({i \in 1..Len(a) : MinBin(a[i], r) = j})]
    IN  [hist |-> Density(c, l, r), l_edges |-> l, r_edges |-> r]

\* C6: after any sequence of slider changes the displayed hist, l_edges and
\* r_edges have the length of the slider's value and are a function of the
\* samples as a multiset and of that value only: earlier slider values and
\* earlier recomputations leave no trace.
C6_FunctionOfMultisetAndBins ==
    recomputed =>
        /\ Len(source.hist) = slider.value
        /\ Len(source.l_edges) = slider.value
        /\ Len(source.r_edges) = slider.value
        /\ source = HistOfMultiset(samples, slider.value)

\* C6's case: samples given out of order, and the slider moved away from
\* the initial bin count and back
C6_Witness ==
    /\ recomputed
    /\ samples # SortAsc(samples)
    /\ slider.value = cfg.bins

\* C7: the stored values orig.data['values'], their order included, are the
\* same after every run of the slider callback as before it.
C7_ValuesUnchanged == [][phase = "live" => orig' = orig]_vars

\* C8: when all samples are equal, every sample is counted in the first bin,
\* all density is finite, and the density of every other bin is zero.
C8_DegenerateDefined ==
    (recomputed /\ Degenerate(orig)) =>
        /\ counts[1] = Len(orig)
        /\ \A j \in 1..Len(source.hist) : IsFinite(source.hist[j])
        /\ \A j \in 2..Len(source.hist) : IsZero(source.hist[j])

\* C9: a configuration is rejected with an error exactly when min_bins < 1,
\* max_bins < min_bins or bins is outside [min_bins, max_bins]; for an
\* accepted one the slider's value stays within [min_bins, max_bins], and
\* every run of the callback has a bin count of at least 1.
C9_BinCountValidated ==
    /\ phase # "idle" =>
          (phase = "rejected" <=>
              \/ cfg.min_bins < 1
              \/ cfg.max_bins < cfg.min_bins
              \/ cfg.bins < cfg.min_bins
              \/ cfg.bins > cfg.max_bins)
    /\ phase = "rejected" => error # "none" /\ source = NoData /\ ~recomputed
    /\ phase = "live" =>
          /\ error = "none"
          /\ slider.value \in cfg.min_bins..cfg.max_bins
          /\ slider.value >= 1
          /\ recomputed => Len(counts) = slider.value

\* C9's case: an accepted configuration whose slider has been moved away
\* from the initial bin count
C9_Witness ==
    /\ phase = "live"
    /\ recomputed
    /\ slider.value # cfg.bins

(***************************************************************************)
(* Properties of the kernel-expression evaluator.                          *)
(***************************************************************************)
UnknownIdentifier(r) ==
    /\ IsError(r)
    /\ r.exc = "ValueError"
    /\ r.what = "is not a valid key in kernel_params"

\* C10: with suppress off, an evaluation that comes to an identifier absent
\* from kernel_params ends there with the error that names the identifier
\* and the whole expression, and no kernel is constructed for it; the error
\* is raised for no identifier that is in kernel_params.
C10_UnknownIdentifierRejected ==
    (kphase = "ready" /\ result # NoResult) =>
        /\ (~suppress /\ \E i \in 1..Len(reached) :
                            reached[i] \notin DOMAIN kernel_params) =>
              /\ UnknownIdentifier(result)
              /\ result.id = reached[Len(reached)]
              /\ result.expr = Join(kernel_expr)
              /\ \A i \in 1..Len(built) : built[i] # result.id
              /\ \A i \in 1..(Len(reached) - 1) :
                    reached[i] \in DOMAIN kernel_params
        /\ UnknownIdentifier(result) =>
              /\ ~suppress
              /\ result.id \notin DOMAIN kernel_params
              /\ reached # <<>> /\ result.id = reached[Len(reached)]
        /\ (mode = "gp" /\ ~suppress /\ kernel_expr = <<"w">>
                /\ "w" \notin DOMAIN kernel_params) =>
              result = Raised("ValueError", "is not a valid key in kernel_params",
                              "w", "w")

\* C10's case: the unknown identifier comes after an identifier of the
\* table, for which a kernel has been constructed
C10_Witness ==
    /\ UnknownIdentifier(result)
    /\ built # <<>>
    /\ Len(reached) = Len(built) + 1

\* the outcome of line 261 for a parameter set taken as it stands
FromSet(params) ==
    NewKernel("", KernelType(params), Pop(params, "type"), [built |-> <<>>]).val

\* the parameter set that belongs to an identifier, read from the
\* caller's dicts as they are when the call starts
SetFor(id) ==
    IF id \in DOMAIN kernel_params THEN kernel_params[id]
    ELSE kernel_default_params

\* C11: in a call with suppress on, every identifier absent from the table is
\* resolved with the caller's default parameter set (the kernel its `type`
\* entry names, RBF without one) and every identifier of the table with its
\* own parameter set.
C11_SuppressedUsesDefault ==
    [][(kphase = "ready" /\ mode' = "gp" /\ suppress') =>
          \A i \in 1..Len(made') : made'[i].val = FromSet(SetFor(made'[i].id))]_vars

\* C12: a call leaves the caller's parameter table and default parameter set
\* with the contents they had, the `type` entries included.
C12_CallerDictsUnchanged ==
    [][kphase = "ready" =>
          /\ kernel_params' = kernel_params
          /\ kernel_default_params' = kernel_default_params]_vars

\* C13: a call that evaluates the expression of the call before it, against
\* the same dicts and with the same suppress, composes the kernel that call
\* composed.
C13_RepeatedEvaluationSame ==
    [][(/\ kphase = "ready"
        /\ mode = "gp" /\ IsKernel(kernel)
        /\ mode' = "gp" /\ kernel_expr' = kernel_expr /\ suppress' = suppress)
          => kernel' = kernel]_vars

\* C14: the evaluation of an expression never gives a kernel with a kernel
\* as an exponent; that of `k ** w` ends in an error; that of `k ** 2` gives
\* the kernel of k raised to the number 2.
C14_ExponentIsNumber ==
    (kphase = "ready" /\ mode = "gp" /\ kernel # NoResult) =>
        /\ IsKernel(kernel) => NumericExponents(kernel)
        /\ kernel_expr = <<"k", " ", "*", "*", " ", "w">> => IsError(kernel)
        /\ (/\ kernel_expr = <<"k", " ", "*", "*", " ", "2">>
            /\ Len(made) = 1 /\ IsKernel(made[1].val)) =>
              kernel = Composed("Exponentiation", made[1].val, Number(2))

\* the expressions of the calls that are outside the grammar of numbers,
\* identifiers, +, *, **, unary minus and parentheses
OutsideGrammar ==
    {<<"k", "(", "w", ")">>,
     <<"k", " ", "<", " ", "w">>,
     <<"'", "k", "'">>,
     <<"k", " ", "-", " ", "w">>,
     <<"k", " ", "+", " ">>,
     <<"(", "*", "k", ")">>}

\* C15: a call with an expression outside the grammar ends in an error, and
\* in the error of one kind: the kind the call before it ended in when its
\* expression was outside the grammar too.
C15_OneUnsupportedOutcome ==
    [][(kphase = "ready" /\ mode' = "gp" /\ kernel_expr' \in OutsideGrammar) =>
          /\ IsError(kernel') /\ result' = kernel'
          /\ (mode = "gp" /\ kernel_expr \in OutsideGrammar /\ IsError(kernel))
                => kernel'.exc = kernel.exc]_vars

(***************************************************************************)
(* Properties of the checkboxes.                                           *)
(***************************************************************************)
\* the i-th plotted histogram of a figure is visible exactly when i is active
InSync(f) ==
    \A i \in 0..(Len(plot_ids) - 1) : f.visible[i + 1] <=> (i \in f.active)

\* C16: in every key's figure the i-th plotted histogram is visible exactly
\* when i is in the active list of the checkbox group, and after Toggle All
\* the histograms of that figure are all visible with all boxes active, or
\* all hidden with none active.
C16_VisibleIffActive ==
    wphase = "shown" =>
        /\ \A key \in DOMAIN figs : InSync(figs[key])
        /\ event.op = "toggle" =>
              LET f == figs[event.key]
                  boxes == 0..(Len(plot_ids) - 1)
              IN  \/ (\A i \in boxes : f.visible[i + 1] /\ i \in f.active)
                  \/ (\A i \in boxes : ~f.visible[i + 1] /\ i \notin f.active)

\* C16's case: several keys, a group without observations, Toggle All just
\* pressed in one figure while the other shows some histograms and hides
\* others
C16_Witness ==
    /\ wphase = "shown"
    /\ Len(plot_ids) < n_plots
    /\ DOMAIN figs = {1, 2}
    /\ event = [op |-> "toggle", key |-> 1]
    /\ \A n \in 1..Len(plot_ids) : ~figs[1].visible[n]
    /\ \E n, o \in 1..Len(plot_ids) : figs[2].visible[n] /\ ~figs[2].visible[o]
====
